---- MODULE Spec2Model ----
(***************************************************************************)
(* The GPMF KLV decoder (crates/gpmf_parser/src/klv.rs), the GPS9 sample   *)
(* projector (crates/gpmf_parser/src/lib.rs) and their callers             *)
(* GpmfSampleInfo::from_bytes, GpmfTrack::from_mp4_reader and              *)
(* GpmfTrack::write_gpx (crates/gpmf_util/src/lib.rs), as a state machine  *)
(* over a byte source read through a std::io::Cursor.                      *)
(*                                                                         *)
(* A byte is a number in 0..255, a stream a sequence of bytes.  The        *)
(* recursion of Value::from_reader is the variable stack: one frame per    *)
(* active Nested invocation.                                               *)
(***************************************************************************)
EXTENDS Integers, Sequences, FiniteSets, TLC

VARIABLES
    src,     \* the bytes behind the reader (Cursor::inner)
    pos,     \* the reader position (Cursor::pos)
    stack,   \* active Nested invocations of Value::from_reader, outermost first
    klvs,    \* Klv::from_reader's local `klvs`
    hdr,     \* the header just read, whose value is read next
    pc,      \* "header": about to read a header; "value": about to read hdr's value;
             \* "done": Klv::from_reader has returned; "projected": from_bytes has run;
             \* "gpx": in write_gpx's loop; "written": write_gpx is over
    ret,     \* what Klv::from_reader returned (tag "None" while it runs)
    sample,  \* what GpmfSampleInfo::from_bytes made of it (tag "None" before)
    gpmf_sample_infos,  \* GpmfTrack::gpmf_sample_infos: the Gps9 of each sample pushed
    iter,               \* write_gpx: how many sample infos its loop has taken
    waypoints,          \* write_gpx's local `waypoints`
    gpx                 \* what write_gpx handed to gpx::write (tag "None" before)

vars == <<src, pos, stack, klvs, hdr, pc, ret, sample, gpmf_sample_infos, iter, waypoints, gpx>>

(***************************************************************************)
(* Byte and sequence helpers.                                              *)
(***************************************************************************)
Zeros(n) == [i \in 1..n |-> 0]

RECURSIVE Concat(_)
Concat(ss) == IF ss = <<>> THEN <<>> ELSE Head(ss) \o Concat(Tail(ss))

\* usize::next_multiple_of(4) / u16::next_multiple_of(4), before any wrap.
next_multiple_of_4(n) == IF n % 4 = 0 THEN n ELSE n + (4 - (n % 4))

\* Big-endian unsigned integer of a byte sequence (read_u16/u32/u64::<BigEndian>).
RECURSIVE UnsignedBE(_)
UnsignedBE(bs) ==
    IF bs = <<>> THEN 0
    ELSE UnsignedBE(SubSeq(bs, 1, Len(bs) - 1)) * 256 + bs[Len(bs)]

\* Big-endian two's complement integer (read_i8, read_i16/i32::<BigEndian>).
RECURSIVE SignedAcc(_, _)
SignedAcc(acc, bs) ==
    IF bs = <<>> THEN acc ELSE SignedAcc(acc * 256 + Head(bs), Tail(bs))

SignedBE(bs) ==
    IF bs = <<>> THEN 0
    ELSE SignedAcc(IF Head(bs) >= 128 THEN Head(bs) - 256 ELSE Head(bs), Tail(bs))

(***************************************************************************)
(* ValueType (klv.rs 164-228).                                             *)
(***************************************************************************)
\* impl TryFrom<u8> for ValueType; "Unknown" stands for the Err(String).
ValueType_try_from(b) ==
    CASE b = 98  -> "S8"        \* b'b'
      [] b = 66  -> "U8"        \* b'B'
      [] b = 108 -> "S32"       \* b'l'
      [] b = 76  -> "U32"       \* b'L'
      [] b = 99  -> "Ascii"     \* b'c'
      [] b = 102 -> "F32"       \* b'f'
      [] b = 70  -> "Fourcc"    \* b'F'
      [] b = 74  -> "U64"       \* b'J'
      [] b = 115 -> "S16"       \* b's'
      [] b = 83  -> "U16"       \* b'S'
      [] b = 85  -> "DateTime"  \* b'U'
      [] b = 63  -> "Complex"   \* b'?'
      [] b = 0   -> "Nested"    \* b'\0'
      [] OTHER   -> "Unknown"

element_size(typ) ==
    CASE typ \in {"S8", "U8", "Ascii"} -> 1
      [] typ \in {"S32", "U32", "F32", "Fourcc"} -> 4
      [] typ = "U64" -> 8
      [] typ \in {"S16", "U16"} -> 2
      [] typ = "DateTime" -> 16
      [] OTHER -> 0              \* Complex, Nested

NumericTypes == {"S8", "U8", "S32", "U32", "F32", "U64", "S16", "U16"}

\* TypeSizeRepeat::axis_count
axis_count(tsr) ==
    IF element_size(tsr.typ) = 0 THEN 1
    ELSE tsr.sample_size \div element_size(tsr.typ)

(***************************************************************************)
(* Results.  A reader operator yields [tag, err, byte, pos, val]: tag is   *)
(* "Ok", "Err" (a KlvError / io::Error value) or "Panic" (an unwrap or an  *)
(* arithmetic overflow check); pos is the reader position afterwards.      *)
(***************************************************************************)
NoHeader == [fourcc |-> <<>>, tsr |-> [typ |-> "Unknown", sample_size |-> 0, repeat |-> 0]]

NoValue == [typ |-> "Unknown", nums |-> <<>>, fourccs |-> <<>>, kids |-> <<>>]

RdOk(p, v) == [tag |-> "Ok", err |-> "", byte |-> 0, pos |-> p, val |-> v]

RdErr(e, b, p) == [tag |-> "Err", err |-> e, byte |-> b, pos |-> p, val |-> <<>>]

RdPanic(e, p) == [tag |-> "Panic", err |-> e, byte |-> 0, pos |-> p, val |-> <<>>]

\* Cursor::read_exact of n bytes at p: the bytes, or UnexpectedEof with the cursor
\* left at the end of the source.
read_exact(s, p, n) ==
    IF p + n <= Len(s) THEN RdOk(p + n, SubSeq(s, p + 1, p + n))
    ELSE RdErr("Io", 0, Len(s))

(***************************************************************************)
(* Fourcc::from_reader, TypeSizeRepeat::from_reader, Header::from_reader.  *)
(***************************************************************************)
\* Mutant: the zero check is missing.
Fourcc_from_reader_NoZeroCheck(s, p) == read_exact(s, p, 4)

Fourcc_from_reader(s, p) ==
    LET r == read_exact(s, p, 4) IN
    IF r.tag # "Ok" THEN r
    ELSE IF r.val = <<0, 0, 0, 0>> THEN RdErr("ZeroFourcc", 0, r.pos)
    ELSE r

\* Mutant: the error carries 0, as the Display text of UnknownValueType does,
\* instead of the byte read.
TypeSizeRepeat_from_reader_ZeroByte(s, p) ==
    LET t == read_exact(s, p, 1) IN
    IF t.tag # "Ok" THEN t
    ELSE IF ValueType_try_from(t.val[1]) = "Unknown"
         THEN RdErr("UnknownValueType", 0, t.pos)
    ELSE LET z == read_exact(s, t.pos, 1) IN
         IF z.tag # "Ok" THEN z
         ELSE LET n == read_exact(s, z.pos, 2) IN
              IF n.tag # "Ok" THEN n
              ELSE RdOk(n.pos, [typ |-> ValueType_try_from(t.val[1]),
                                sample_size |-> z.val[1],
                                repeat |-> UnsignedBE(n.val)])

TypeSizeRepeat_from_reader(s, p) ==
    LET t == read_exact(s, p, 1) IN
    IF t.tag # "Ok" THEN t
    ELSE IF ValueType_try_from(t.val[1]) = "Unknown"
         THEN RdErr("UnknownValueType", t.val[1], t.pos)
    ELSE LET z == read_exact(s, t.pos, 1) IN
         IF z.tag # "Ok" THEN z
         ELSE LET n == read_exact(s, z.pos, 2) IN
              IF n.tag # "Ok" THEN n
              ELSE RdOk(n.pos, [typ |-> ValueType_try_from(t.val[1]),
                                sample_size |-> z.val[1],
                                repeat |-> UnsignedBE(n.val)])

Header_from_reader(s, p) ==
    LET f == Fourcc_from_reader(s, p) IN
    IF f.tag # "Ok" THEN f
    ELSE LET t == TypeSizeRepeat_from_reader(s, f.pos) IN
         IF t.tag # "Ok" THEN t
         ELSE RdOk(t.pos, [fourcc |-> f.val, tsr |-> t.val])

(***************************************************************************)
(* Value::skip_padding, Value::read_numeric and the leaf branches of       *)
(* Value::from_reader.                                                     *)
(***************************************************************************)
skip_padding(s, p, bytes_processed) ==
    read_exact(s, p, next_multiple_of_4(bytes_processed) - bytes_processed)

\* Numeric::value_from_reader of one element; an F32 is kept as its bit pattern.
value_from_bytes(typ, bs) ==
    IF typ \in {"S8", "S16", "S32"} THEN SignedBE(bs) ELSE UnsignedBE(bs)

RECURSIVE values_from_bytes(_, _, _)
values_from_bytes(typ, w, bs) ==
    IF Len(bs) < w THEN <<>>
    ELSE <<value_from_bytes(typ, SubSeq(bs, 1, w))>>
         \o values_from_bytes(typ, w, SubSeq(bs, w + 1, Len(bs)))

\* read_numeric: axis_count * repeat elements, then the padding of the bytes read.
read_numeric(s, p, header) ==
    LET w == element_size(header.tsr.typ)
        value_count == axis_count(header.tsr) * header.tsr.repeat
        r == read_exact(s, p, value_count * w)
    IN  IF r.tag # "Ok" THEN r
        ELSE LET q == skip_padding(s, r.pos, value_count * w) IN
             IF q.tag # "Ok" THEN q
             ELSE RdOk(q.pos, [NoValue EXCEPT !.typ = header.tsr.typ,
                                              !.nums = values_from_bytes(header.tsr.typ, w, r.val)])

\* The Ascii and Complex branches: sample_size * repeat bytes, then padding.
\* latin1_to_utf8 maps byte b to the code point b.
read_bytes_value(s, p, header) ==
    LET n == header.tsr.sample_size * header.tsr.repeat
        r == read_exact(s, p, n)
    IN  IF r.tag # "Ok" THEN r
        ELSE LET q == skip_padding(s, r.pos, n) IN
             IF q.tag # "Ok" THEN q
             ELSE RdOk(q.pos, [NoValue EXCEPT !.typ = header.tsr.typ, !.nums = r.val])

\* The Fourcc branch: axis_count * repeat times Fourcc::from_reader(reader).unwrap();
\* no skip_padding.
RECURSIVE read_fourccs(_, _, _)
read_fourccs(s, p, n) ==
    IF n = 0 THEN RdOk(p, <<>>)
    ELSE LET f == Fourcc_from_reader(s, p) IN
         IF f.tag # "Ok" THEN RdPanic("unwrap", f.pos)
         ELSE LET rest == read_fourccs(s, f.pos, n - 1) IN
              IF rest.tag # "Ok" THEN rest
              ELSE RdOk(rest.pos, <<f.val>> \o rest.val)

read_fourcc_value(s, p, header) ==
    LET r == read_fourccs(s, p, axis_count(header.tsr) * header.tsr.repeat) IN
    IF r.tag # "Ok" THEN r
    ELSE RdOk(r.pos, [NoValue EXCEPT !.typ = "Fourcc", !.fourccs = r.val])

(***************************************************************************)
(* The DateTime branch: NaiveDateTime::parse_from_str(&string,             *)
(* "%y%m%d%H%M%S%.f").unwrap().  chrono reads each numeric item as 1 to 2  *)
(* decimal digits after skipping white space, the fraction as an optional  *)
(* '.' followed by digits, refuses left-over input and out-of-range        *)
(* fields.                                                                 *)
(***************************************************************************)
IsDigit(b) == b >= 48 /\ b <= 57

IsSpace(b) == b \in {9, 10, 11, 12, 13, 32, 133, 160}

RECURSIVE trim_start(_)
trim_start(bs) ==
    IF bs # <<>> /\ IsSpace(Head(bs)) THEN trim_start(Tail(bs)) ELSE bs

\* The number of leading digits of bs, at most max.
RECURSIVE digit_run(_, _)
digit_run(bs, max) ==
    IF max = 0 \/ bs = <<>> \/ ~IsDigit(Head(bs)) THEN 0
    ELSE 1 + digit_run(Tail(bs), max - 1)

RECURSIVE Decimal(_)
Decimal(ds) ==
    IF ds = <<>> THEN 0
    ELSE Decimal(SubSeq(ds, 1, Len(ds) - 1)) * 10 + (ds[Len(ds)] - 48)

RECURSIVE Pow10(_)
Pow10(k) == IF k = 0 THEN 1 ELSE 10 * Pow10(k - 1)

\* scan::number(s, 1, max) after s.trim_start()
scan_number(bs, max) ==
    LET t == trim_start(bs)
        k == digit_run(t, max)
    IN  [ok |-> k > 0, val |-> Decimal(SubSeq(t, 1, k)), rest |-> SubSeq(t, k + 1, Len(t))]

\* n numeric items of width 2 in a row.
RECURSIVE scan_fields(_, _)
scan_fields(bs, n) ==
    IF n = 0 THEN [ok |-> TRUE, vals |-> <<>>, rest |-> bs]
    ELSE LET f == scan_number(bs, 2) IN
         IF ~f.ok THEN [ok |-> FALSE, vals |-> <<>>, rest |-> bs]
         ELSE LET r == scan_fields(f.rest, n - 1) IN
              [ok |-> r.ok, vals |-> <<f.val>> \o r.vals, rest |-> r.rest]

\* Fixed::Nanosecond: nothing unless the input starts with '.'; then 1 to 9 digits
\* scaled to nanoseconds, further digits skipped.
scan_nanosecond(bs) ==
    IF bs = <<>> \/ Head(bs) # 46 THEN [ok |-> TRUE, val |-> 0, rest |-> bs]
    ELSE LET t == Tail(bs)
             k == digit_run(t, 9)
             more == digit_run(SubSeq(t, k + 1, Len(t)), Len(t))
         IN  [ok |-> k > 0,
              val |-> Decimal(SubSeq(t, 1, k)) * Pow10(9 - k),
              rest |-> SubSeq(t, k + more + 1, Len(t))]

DaysInMonth(year, month) ==
    IF month = 2 THEN (IF year % 4 = 0 THEN 29 ELSE 28)   \* 1970..2069
    ELSE IF month \in {4, 6, 9, 11} THEN 30 ELSE 31

\* [ok, val]: val is <<year, month, day, hour, minute, second, nanosecond>>; a
\* second of 60 is kept as 59 with 1e9 added to the nanoseconds.
parse_from_str(bs) ==
    LET f == scan_fields(bs, 6)
        n == scan_nanosecond(f.rest)
    IN  IF ~f.ok \/ ~n.ok \/ n.rest # <<>> THEN [ok |-> FALSE, val |-> <<>>]
        ELSE LET year == IF f.vals[1] < 70 THEN 2000 + f.vals[1] ELSE 1900 + f.vals[1]
                 month == f.vals[2]
                 day == f.vals[3]
                 valid == /\ month \in 1..12
                          /\ day >= 1 /\ day <= DaysInMonth(year, month)
                          /\ f.vals[4] <= 23 /\ f.vals[5] <= 59 /\ f.vals[6] <= 60
             IN  IF ~valid THEN [ok |-> FALSE, val |-> <<>>]
                 ELSE [ok |-> TRUE,
                       val |-> <<year, month, day, f.vals[4], f.vals[5],
                                 IF f.vals[6] = 60 THEN 59 ELSE f.vals[6],
                                 IF f.vals[6] = 60 THEN n.val + Pow10(9) ELSE n.val>>]

read_datetime_value(s, p, header) ==
    LET n == header.tsr.sample_size * header.tsr.repeat
        r == read_exact(s, p, n)
    IN  IF r.tag # "Ok" THEN r
        ELSE LET q == skip_padding(s, r.pos, n) IN
             IF q.tag # "Ok" THEN q
             ELSE LET d == parse_from_str(r.val) IN
                  IF ~d.ok THEN RdPanic("unwrap", q.pos)
                  ELSE RdOk(q.pos, [NoValue EXCEPT !.typ = "DateTime", !.nums = d.val])

\* Value::from_reader for every type but Nested.
leaf_from_reader(s, p, header) ==
    CASE header.tsr.typ \in NumericTypes -> read_numeric(s, p, header)
      [] header.tsr.typ \in {"Ascii", "Complex"} -> read_bytes_value(s, p, header)
      [] header.tsr.typ = "Fourcc" -> read_fourcc_value(s, p, header)
      [] header.tsr.typ = "DateTime" -> read_datetime_value(s, p, header)

(***************************************************************************)
(* The Nested branch's end_position.  `sample_size as u16 * repeat` and    *)
(* u16::next_multiple_of(4) overflow past 65535: a build with overflow     *)
(* checks panics, one without wraps modulo 2^16.  Both builds are          *)
(* outcomes.                                                               *)
(***************************************************************************)
U16Range == 65536

nested_len_outcomes(tsr) ==
    LET product == tsr.sample_size * tsr.repeat
        wrapped == product % U16Range
        rounded == next_multiple_of_4(wrapped)
    IN  IF product < U16Range /\ rounded < U16Range
        THEN {[panic |-> FALSE, len |-> rounded]}
        ELSE {[panic |-> TRUE, len |-> 0],
              [panic |-> FALSE, len |-> rounded % U16Range]}

(***************************************************************************)
(* The state machine of Klv::from_reader.                                  *)
(***************************************************************************)
NoRet == [tag |-> "None", err |-> "", byte |-> 0, klvs |-> <<>>]

NoSample == [tag |-> "None", err |-> "", gps9 |-> <<>>, klvs |-> <<>>]

InNested == stack # <<>>

\* Vec::push onto the `klvs` of the innermost active loop.
Push(klv) ==
    IF InNested
    THEN /\ stack' = [stack EXCEPT ![Len(stack)].klvs = Append(@, klv)]
         /\ klvs' = klvs
    ELSE /\ klvs' = Append(klvs, klv)
         /\ stack' = stack

\* `?` / return Err / a panic: every active invocation unwinds, its records dropped.
Abort(r) ==
    /\ ret' = [tag |-> r.tag, err |-> r.err, byte |-> r.byte, klvs |-> <<>>]
    /\ pc' = "done"
    /\ pos' = r.pos
    /\ stack' = <<>>
    /\ klvs' = <<>>
    /\ hdr' = NoHeader
    /\ UNCHANGED <<src, sample>>
    /\ UNCHANGED <<gpmf_sample_infos, iter, waypoints, gpx>>

\* Top-level loop, line 33: the header read ends the stream cleanly (ZeroFourcc, or
\* an Io error of kind UnexpectedEof anywhere in the 8 bytes): break, Ok(klvs).
TopHeaderBreak ==
    /\ pc = "header" /\ ~InNested
    /\ LET h == Header_from_reader(src, pos) IN
       /\ h.tag = "Err" /\ h.err \in {"ZeroFourcc", "Io"}
       /\ ret' = [tag |-> "Ok", err |-> "", byte |-> 0, klvs |-> klvs]
       /\ pos' = h.pos
    /\ pc' = "done"
    /\ UNCHANGED <<src, stack, klvs, hdr, sample>>
    /\ UNCHANGED <<gpmf_sample_infos, iter, waypoints, gpx>>

\* Line 41: any other header error is returned.
TopHeaderErr ==
    /\ pc = "header" /\ ~InNested
    /\ LET h == Header_from_reader(src, pos) IN
       /\ h.tag = "Err" /\ h.err \notin {"ZeroFourcc", "Io"}
       /\ Abort(h)

\* Line 42: a header was read; its value is next.
TopHeaderOk ==
    /\ pc = "header" /\ ~InNested
    /\ LET h == Header_from_reader(src, pos) IN
       /\ h.tag = "Ok"
       /\ hdr' = h.val
       /\ pos' = h.pos
    /\ pc' = "value"
    /\ UNCHANGED <<src, stack, klvs, ret, sample>>
    /\ UNCHANGED <<gpmf_sample_infos, iter, waypoints, gpx>>

\* Nested loop, lines 312-313: position < end_position, Header::from_reader(reader)?
ChildHeaderOk ==
    /\ pc = "header" /\ InNested
    /\ pos < stack[Len(stack)].end_position
    /\ LET h == Header_from_reader(src, pos) IN
       /\ h.tag = "Ok"
       /\ hdr' = h.val
       /\ pos' = h.pos
    /\ pc' = "value"
    /\ UNCHANGED <<src, stack, klvs, ret, sample>>
    /\ UNCHANGED <<gpmf_sample_infos, iter, waypoints, gpx>>

\* Mutant: a zero FourCC or an end of stream ends the child loop as it ends the
\* top-level loop: the container is returned with the children read so far.
ChildHeaderErr_CleanStop ==
    /\ pc = "header" /\ InNested
    /\ pos < stack[Len(stack)].end_position
    /\ LET h == Header_from_reader(src, pos)
           top == stack[Len(stack)]
           klv == [header |-> top.header,
                   value |-> [NoValue EXCEPT !.typ = "Nested", !.kids = top.klvs]]
           rest == SubSeq(stack, 1, Len(stack) - 1)
       IN  /\ h.tag # "Ok"
           /\ IF h.err \in {"ZeroFourcc", "Io"}
              THEN /\ pos' = h.pos
                   /\ IF rest = <<>>
                      THEN klvs' = Append(klvs, klv) /\ stack' = rest
                      ELSE /\ stack' = [rest EXCEPT ![Len(rest)].klvs = Append(@, klv)]
                           /\ klvs' = klvs
                   /\ UNCHANGED <<src, hdr, pc, ret, sample>>
                   /\ UNCHANGED <<gpmf_sample_infos, iter, waypoints, gpx>>
              ELSE Abort(h)

\* Line 313: Header::from_reader(reader)? fails; the `?` of every enclosing
\* Value::from_reader and of Klv::from_reader (line 43) returns the error.
ChildHeaderErr ==
    /\ pc = "header" /\ InNested
    /\ pos < stack[Len(stack)].end_position
    /\ LET h == Header_from_reader(src, pos) IN
       /\ h.tag # "Ok"
       /\ Abort(h)

\* Lines 250-304: a leaf value is read and the record pushed.
LeafValueOk ==
    /\ pc = "value" /\ hdr.tsr.typ # "Nested"
    /\ LET v == leaf_from_reader(src, pos, hdr) IN
       /\ v.tag = "Ok"
       /\ Push([header |-> hdr, value |-> v.val])
       /\ pos' = v.pos
    /\ pc' = "header"
    /\ hdr' = NoHeader
    /\ UNCHANGED <<src, ret, sample>>
    /\ UNCHANGED <<gpmf_sample_infos, iter, waypoints, gpx>>

\* A short read inside the payload or its padding: the io::Error is returned.
LeafValueErr ==
    /\ pc = "value" /\ hdr.tsr.typ # "Nested"
    /\ LET v == leaf_from_reader(src, pos, hdr) IN
       /\ v.tag = "Err"
       /\ Abort(v)

\* Lines 273 and 293: unwrap() on an Err panics.
LeafValuePanic ==
    /\ pc = "value" /\ hdr.tsr.typ # "Nested"
    /\ LET v == leaf_from_reader(src, pos, hdr) IN
       /\ v.tag = "Panic"
       /\ Abort(v)

\* Lines 306-311: a Nested value starts its child loop.
EnterNested ==
    /\ pc = "value" /\ hdr.tsr.typ = "Nested"
    /\ \E o \in nested_len_outcomes(hdr.tsr) :
         /\ ~o.panic
         /\ stack' = Append(stack, [header |-> hdr,
                                    end_position |-> pos + o.len,
                                    klvs |-> <<>>])
    /\ pc' = "header"
    /\ hdr' = NoHeader
    /\ UNCHANGED <<src, pos, klvs, ret, sample>>
    /\ UNCHANGED <<gpmf_sample_infos, iter, waypoints, gpx>>

\* Lines 309-311 in a build with overflow checks.
NestedOverflowPanic ==
    /\ pc = "value" /\ hdr.tsr.typ = "Nested"
    /\ \E o \in nested_len_outcomes(hdr.tsr) :
         /\ o.panic
         /\ Abort(RdPanic("overflow", pos))

\* Lines 312 and 320: position >= end_position, Ok(Self::Nested(klvs)); the caller
\* pushes the record (line 315, or line 44 at top level).
ExitNested ==
    /\ pc = "header" /\ InNested
    /\ pos >= stack[Len(stack)].end_position
    /\ LET top == stack[Len(stack)]
           klv == [header |-> top.header,
                   value |-> [NoValue EXCEPT !.typ = "Nested", !.kids = top.klvs]]
           rest == SubSeq(stack, 1, Len(stack) - 1)
       IN  IF rest = <<>>
           THEN /\ klvs' = Append(klvs, klv)
                /\ stack' = rest
           ELSE /\ stack' = [rest EXCEPT ![Len(rest)].klvs = Append(@, klv)]
                /\ klvs' = klvs
    /\ UNCHANGED <<src, pos, hdr, pc, ret, sample>>
    /\ UNCHANGED <<gpmf_sample_infos, iter, waypoints, gpx>>

(***************************************************************************)
(* Fourcc::as_str: std::str::from_utf8(&self.0).expect(..) panics on bytes *)
(* that are not UTF-8.                                                     *)
(***************************************************************************)
IsCont(b) == b >= 128 /\ b <= 191

RECURSIVE Utf8Valid(_)
Utf8Valid(bs) ==
    IF bs = <<>> THEN TRUE
    ELSE LET b == Head(bs)
             n == Len(bs)
         IN  CASE b < 128 -> Utf8Valid(Tail(bs))
               [] b >= 194 /\ b <= 223 ->
                    n >= 2 /\ IsCont(bs[2]) /\ Utf8Valid(SubSeq(bs, 3, n))
               [] b >= 224 /\ b <= 239 ->
                    /\ n >= 3 /\ IsCont(bs[2]) /\ IsCont(bs[3])
                    /\ (b = 224 => bs[2] >= 160)
                    /\ (b = 237 => bs[2] <= 159)
                    /\ Utf8Valid(SubSeq(bs, 4, n))
               [] b >= 240 /\ b <= 244 ->
                    /\ n >= 4 /\ IsCont(bs[2]) /\ IsCont(bs[3]) /\ IsCont(bs[4])
                    /\ (b = 240 => bs[2] >= 144)
                    /\ (b = 244 => bs[2] <= 143)
                    /\ Utf8Valid(SubSeq(bs, 5, n))
               [] OTHER -> FALSE

FourccDEVC == <<68, 69, 86, 67>>
FourccSTRM == <<83, 84, 82, 77>>
FourccGPS9 == <<71, 80, 83, 57>>
FourccTYPE == <<84, 89, 80, 69>>
FourccSCAL == <<83, 67, 65, 76>>
TypeString == <<108, 108, 108, 108, 108, 108, 108, 83, 83>>   \* "lllllllSS"

\* iter().find(|klv| klv.header().fourcc().as_str() == name) from index i on:
\* [tag, idx] with tag "Found", "None", or "Panic" when as_str panics first.
RECURSIVE find_fourcc(_, _, _)
find_fourcc(ks, i, name) ==
    IF i > Len(ks) THEN [tag |-> "None", idx |-> 0]
    ELSE IF ~Utf8Valid(ks[i].header.fourcc) THEN [tag |-> "Panic", idx |-> i]
    ELSE IF ks[i].header.fourcc = name THEN [tag |-> "Found", idx |-> i]
    ELSE find_fourcc(ks, i + 1, name)

\* Mutant: the last STRM child whose children hold a GPS9.
RECURSIVE find_strm_Last(_, _)
find_strm_Last(ks, i) ==
    LET f == find_fourcc(ks, i, FourccSTRM) IN
    IF f.tag # "Found" THEN f
    ELSE IF ks[f.idx].value.typ # "Nested" THEN [tag |-> "Panic", idx |-> f.idx]
    ELSE LET g == find_fourcc(ks[f.idx].value.kids, 1, FourccGPS9)
             later == find_strm_Last(ks, f.idx + 1)
         IN  IF g.tag = "Panic" THEN [tag |-> "Panic", idx |-> f.idx]
             ELSE IF later.tag = "Found" THEN later
             ELSE IF g.tag = "Found" THEN f
             ELSE later

\* lib.rs 87-98: the first STRM child, from index i on, whose children hold a GPS9.
RECURSIVE find_strm(_, _)
find_strm(ks, i) ==
    LET f == find_fourcc(ks, i, FourccSTRM) IN
    IF f.tag # "Found" THEN f
    ELSE IF ks[f.idx].value.typ # "Nested" THEN [tag |-> "Panic", idx |-> f.idx]
    ELSE LET g == find_fourcc(ks[f.idx].value.kids, 1, FourccGPS9) IN
         IF g.tag = "Panic" THEN [tag |-> "Panic", idx |-> f.idx]
         ELSE IF g.tag = "Found" THEN f
         ELSE find_strm(ks, f.idx + 1)

\* A u32 as <<high 16 bits, low 16 bits>>.
U32Max == <<65535, 65535>>

\* (fix as f32 / scal as f32) as u32: NaN and negative quotients give 0, +inf
\* saturates, any other quotient is truncated.
scaled_fix(fix, scal) ==
    IF scal = 0 THEN (IF fix = 0 THEN <<0, 0>> ELSE U32Max)
    ELSE IF scal < 0 THEN <<0, 0>>
    ELSE <<0, fix \div scal>>

SampleOk(g, ks) == [tag |-> "Ok", err |-> "", gps9 |-> g, klvs |-> ks]

SamplePanic(e) == [tag |-> "Panic", err |-> e, gps9 |-> <<>>, klvs |-> <<>>]

SampleErr(e) == [tag |-> "Err", err |-> e, gps9 |-> <<>>, klvs |-> <<>>]

\* lib.rs 139-171: the nine raw fields of the first sample, each over its divisor.
\* An f32 quotient is kept as the pair <<raw, divisor>>.
read_gps9(raw, scal_values) ==
    LET i32at(k) == SignedBE(SubSeq(raw, 4 * k + 1, 4 * k + 4))
    IN  [latitude |-> <<i32at(0), scal_values[1]>>,
         longitude |-> <<i32at(1), scal_values[2]>>,
         altitude |-> <<i32at(2), scal_values[3]>>,
         speed_2d |-> <<i32at(3), scal_values[4]>>,
         speed_3d |-> <<i32at(4), scal_values[5]>>,
         days_since_2000 |-> <<i32at(5), scal_values[6]>>,
         seconds_since_midnight |-> <<i32at(6), scal_values[7]>>,
         dop |-> <<UnsignedBE(SubSeq(raw, 29, 30)), scal_values[8]>>,
         fix |-> scaled_fix(UnsignedBE(SubSeq(raw, 31, 32)), scal_values[9])]

\* Mutant: any TYPE string is accepted.
type_str_matches_Any(type_str) == TRUE

\* lib.rs 122: assert_eq!(type_str, "lllllllSS")
type_str_matches(type_str) == type_str = TypeString

\* GpmfSample::new (lib.rs 79-178).
GpmfSample_new(devc_klv) ==
    IF ~Utf8Valid(devc_klv.header.fourcc) \/ devc_klv.header.fourcc # FourccDEVC
    THEN SamplePanic("assert DEVC")
    ELSE IF devc_klv.value.typ # "Nested" THEN SamplePanic("DEVC not Nested")
    ELSE
    LET child_klvs == devc_klv.value.kids
        strm == find_strm(child_klvs, 1)
    IN  IF strm.tag = "Panic" THEN SamplePanic("STRM scan")
        ELSE IF strm.tag = "None" THEN SamplePanic("no STRM with GPS9")
        ELSE
        LET strm_child_klvs == child_klvs[strm.idx].value.kids
            gps9 == find_fourcc(strm_child_klvs, 1, FourccGPS9)
            typ == find_fourcc(strm_child_klvs, 1, FourccTYPE)
            scal == find_fourcc(strm_child_klvs, 1, FourccSCAL)
        IN  IF strm_child_klvs[gps9.idx].value.typ # "Complex"
            THEN SamplePanic("GPS9 not Complex")
            ELSE IF typ.tag # "Found" THEN SamplePanic("no TYPE")
            ELSE IF strm_child_klvs[typ.idx].value.typ # "Ascii"
            THEN SamplePanic("TYPE not Ascii")
            ELSE IF ~type_str_matches(strm_child_klvs[typ.idx].value.nums)
            THEN SamplePanic("TYPE string")
            ELSE IF scal.tag # "Found" THEN SamplePanic("no SCAL")
            ELSE IF strm_child_klvs[scal.idx].value.typ # "S32"
            THEN SamplePanic("SCAL not S32")
            ELSE IF Len(strm_child_klvs[scal.idx].value.nums) # 9
            THEN SamplePanic("SCAL length")
            ELSE IF Len(strm_child_klvs[gps9.idx].value.nums) < 32
            THEN SamplePanic("GPS9 short")
            ELSE SampleOk(read_gps9(strm_child_klvs[gps9.idx].value.nums,
                                    strm_child_klvs[scal.idx].value.nums),
                          child_klvs)

\* GpmfSampleInfo::from_bytes (gpmf_util lib.rs 141-159), after Klv::from_reader.
from_bytes(r) ==
    IF r.tag = "Panic" THEN SamplePanic(r.err)
    ELSE IF r.tag = "Err" THEN SampleErr("Failed to parse GPMF KLVs")
    ELSE LET d == find_fourcc(r.klvs, 1, FourccDEVC) IN
         IF d.tag = "Panic" THEN SamplePanic("as_str")
         ELSE IF d.tag = "None" THEN SampleErr("DEVC KLV not found")
         ELSE GpmfSample_new(r.klvs[d.idx])

FromBytes ==
    /\ pc = "done"
    /\ sample' = from_bytes(ret)
    /\ pc' = "projected"
    /\ UNCHANGED <<src, pos, stack, klvs, hdr, ret>>
    /\ UNCHANGED <<gpmf_sample_infos, iter, waypoints, gpx>>

(***************************************************************************)
(* GpmfTrack::write_gpx (gpmf_util lib.rs 61-111) and Gps9::to_datetime    *)
(* (gpmf_parser lib.rs 49-72).                                             *)
(***************************************************************************)
\* `n as f32` of an integer: the nearest value with a 24-bit significand, ties to
\* the even one.  f32_step is the spacing of the f32 values around m >= 0.
RECURSIVE f32_step(_, _)
f32_step(m, step) == IF m < 16777216 * step THEN step ELSE f32_step(m, 2 * step)

f32_round(m, step) ==
    LET q == m \div step
        r == m % step
    IN  IF 2 * r > step \/ (2 * r = step /\ q % 2 = 1) THEN (q + 1) * step ELSE q * step

as_f32(n) ==
    IF n < 0 THEN -f32_round(-n, f32_step(-n, 1)) ELSE f32_round(n, f32_step(n, 1))

\* The integer part of a / b, toward zero; inf = 1 or -1 for a nonzero a over 0.0,
\* and 0 with v = 0 for NaN (0.0 / 0.0).
f32_div_trunc(a, b) ==
    IF b = 0 THEN [inf |-> IF a > 0 THEN 1 ELSE IF a < 0 THEN -1 ELSE 0, v |-> 0]
    ELSE IF a < 0 /\ b < 0 THEN [inf |-> 0, v |-> (-a) \div (-b)]
    ELSE IF a < 0 THEN [inf |-> 0, v |-> -((-a) \div b)]
    ELSE IF b < 0 THEN [inf |-> 0, v |-> -(a \div (-b))]
    ELSE [inf |-> 0, v |-> a \div b]

\* `x as i64` / `x as u64` of an f32 quotient <<raw, divisor>>, before the cast
\* saturates.  The rounding of the quotient itself is left out: it changes the
\* integer part only where the quotient lies within half an ulp below an integer.
f32_trunc(x) == f32_div_trunc(as_f32(x[1]), as_f32(x[2]))

\* Days from 2000-01-01 to Date::MIN (-9999-01-01) and to Date::MAX (9999-12-31).
DateMinDays == -4382544
DateMaxDays == 2921939

\* lib.rs 62-68: hours, minutes and seconds of `seconds_since_midnight as u64`; a
\* negative value casts to 0 and +inf to u64::MAX, whose hour byte is 223.
time_of_day(secs) ==
    IF secs.inf = 1 THEN [hours |-> 223, minutes |-> 0, seconds |-> 15]
    ELSE IF secs.v < 0 THEN [hours |-> 0, minutes |-> 0, seconds |-> 0]
    ELSE [hours |-> (secs.v \div 3600) % 256,
          minutes |-> (secs.v % 3600) \div 60,
          seconds |-> secs.v % 60]

\* lib.rs 56-71 on the two truncated fields: "Panic" when gps_epoch +
\* Duration::days(..) overflows, "None" when Time::from_hms_nano refuses the hour,
\* else "Some" date and time.
date_with_time(days, time) ==
    IF days.inf # 0 \/ days.v < DateMinDays \/ days.v > DateMaxDays
    THEN [tag |-> "Panic", days |-> 0, hours |-> 0, minutes |-> 0, seconds |-> 0]
    ELSE IF time.hours > 23
    THEN [tag |-> "None", days |-> 0, hours |-> 0, minutes |-> 0, seconds |-> 0]
    ELSE [tag |-> "Some", days |-> days.v, hours |-> time.hours,
          minutes |-> time.minutes, seconds |-> time.seconds]

\* Gps9::to_datetime.
to_datetime(g) ==
    date_with_time(f32_trunc(g.days_since_2000),
                   time_of_day(f32_trunc(g.seconds_since_midnight)))

\* lib.rs 80-84: match gps9.fix { 2 => .., 3 => .., _ => Fix::None }
gpx_fix(fix) ==
    IF fix = <<0, 2>> THEN "TwoDimensional"
    ELSE IF fix = <<0, 3>> THEN "ThreeDimensional"
    ELSE "None"

\* lib.rs 76-91: the Waypoint built from a Gps9 and its resolved time.
new_waypoint(g, time) ==
    [point |-> <<g.longitude, g.latitude>>,
     elevation |-> g.altitude,
     time |-> [days |-> time.days, hours |-> time.hours, minutes |-> time.minutes,
               seconds |-> time.seconds],
     speed |-> g.speed_2d,
     fix |-> gpx_fix(g.fix),
     pdop |-> g.dop]

NoGpx == [tag |-> "None", points |-> <<>>]

(***************************************************************************)
(* The inputs.  A record tree is written as the Klv the parser should      *)
(* yield and turned into bytes by Encode, the layout of a GPMF record:     *)
(* fourcc[4] type[1] sample_size[1] repeat[2, big-endian], the payload,    *)
(* zero padding to a 4-byte boundary.  Malformed inputs are written as     *)
(* bytes.                                                                  *)
(***************************************************************************)
TypeByte(typ) ==
    CASE typ = "S8" -> 98 [] typ = "U8" -> 66 [] typ = "S32" -> 108
      [] typ = "U32" -> 76 [] typ = "Ascii" -> 99 [] typ = "F32" -> 102
      [] typ = "Fourcc" -> 70 [] typ = "U64" -> 74 [] typ = "S16" -> 115
      [] typ = "U16" -> 83 [] typ = "DateTime" -> 85 [] typ = "Complex" -> 63
      [] typ = "Nested" -> 0

RECURSIVE ToBytes(_, _)
ToBytes(v, w) ==
    IF w = 0 THEN <<>>
    ELSE ToBytes((v - (v % 256)) \div 256, w - 1) \o <<v % 256>>

RawHeader(fourcc, typeByte, ss, rep) ==
    fourcc \o <<typeByte, ss, rep \div 256, rep % 256>>

Padded(bs) == bs \o Zeros(next_multiple_of_4(Len(bs)) - Len(bs))

TwoDigits(n) == <<48 + (n \div 10), 48 + (n % 10)>>

\* YYMMDDhhmmss.fff of <<year, month, day, hour, minute, second, nanosecond>>
FormatDateTime(d) ==
    TwoDigits(d[1] % 100) \o TwoDigits(d[2]) \o TwoDigits(d[3]) \o TwoDigits(d[4])
    \o TwoDigits(d[5]) \o TwoDigits(d[6]) \o <<46>>
    \o <<48 + ((d[7] \div Pow10(8)) % 10), 48 + ((d[7] \div Pow10(7)) % 10),
         48 + ((d[7] \div Pow10(6)) % 10)>>

RECURSIVE Encode(_), EncodeAll(_)
Encode(k) ==
    LET typ == k.header.tsr.typ
        payload ==
          CASE typ \in NumericTypes ->
                 Concat([i \in 1..Len(k.value.nums) |->
                           ToBytes(k.value.nums[i], element_size(typ))])
            [] typ \in {"Ascii", "Complex"} -> k.value.nums
            [] typ = "Fourcc" -> Concat(k.value.fourccs)
            [] typ = "DateTime" -> FormatDateTime(k.value.nums)
            [] typ = "Nested" -> EncodeAll(k.value.kids)
    IN  RawHeader(k.header.fourcc, TypeByte(typ),
                  k.header.tsr.sample_size, k.header.tsr.repeat)
        \o Padded(payload)

EncodeAll(ks) == IF ks = <<>> THEN <<>> ELSE Encode(Head(ks)) \o EncodeAll(Tail(ks))

Leaf(fourcc, typ, ss, rep, nums) ==
    [header |-> [fourcc |-> fourcc, tsr |-> [typ |-> typ, sample_size |-> ss, repeat |-> rep]],
     value |-> [NoValue EXCEPT !.typ = typ, !.nums = nums]]

FourccLeaf(fourcc, rep, fs) ==
    [header |-> [fourcc |-> fourcc, tsr |-> [typ |-> "Fourcc", sample_size |-> 4, repeat |-> rep]],
     value |-> [NoValue EXCEPT !.typ = "Fourcc", !.fourccs = fs]]

\* A container whose header declares exactly the bytes of its children.
Nest(fourcc, kids) ==
    LET n == Len(EncodeAll(kids)) IN
    [header |-> [fourcc |-> fourcc,
                 tsr |-> [typ |-> "Nested",
                          sample_size |-> IF n = 0 THEN 0 ELSE 4,
                          repeat |-> n \div 4]],
     value |-> [NoValue EXCEPT !.typ = "Nested", !.kids = kids]]

\* Sequences over S of length 0..n.
SeqsUpTo(S, n) == UNION {[1..m -> S] : m \in 0..n}

(***************************************************************************)
(* Well-formed records: every leaf type, every padding length 0..3, and    *)
(* containers.                                                             *)
(***************************************************************************)
KDemo == Leaf(<<68, 69, 77, 79>>, "U32", 4, 1, <<7>>)                    \* DEMO L
KName == Leaf(<<78, 65, 77, 69>>, "Ascii", 1, 5, <<104, 101, 108, 108, 111>>) \* NAME c "hello"
KTemp == Leaf(<<84, 77, 80, 67>>, "S16", 2, 1, <<-2>>)                   \* TMPC s
KAccl == Leaf(<<65, 67, 67, 76>>, "S8", 1, 3, <<-1, 0, 5>>)              \* ACCL b
KTags == FourccLeaf(<<84, 65, 71, 83>>, 2, <<FourccGPS9, <<65, 0, 0, 0>>>>)
KTime == Leaf(<<84, 73, 77, 69>>, "DateTime", 16, 1,
              <<2024, 2, 29, 23, 59, 58, 678000000>>)                    \* TIME U
KBlob == Leaf(<<66, 76, 79, 66>>, "Complex", 3, 2, <<1, 2, 3, 4, 5, 6>>) \* BLOB ?
KWide == Leaf(<<87, 73, 68, 69>>, "U64", 8, 1, <<258>>)                  \* WIDE J
KVect == Leaf(<<86, 69, 67, 84>>, "S32", 8, 1, <<-5, 1000>>)             \* VECT l, 2 axes
KFlts == Leaf(<<70, 76, 84, 83>>, "F32", 4, 1, <<1065353216>>)           \* FLTS f, 1.0
KUsht == Leaf(<<85, 83, 72, 84>>, "U16", 2, 2, <<65535, 1>>)             \* USHT S
KUbyt == Leaf(<<85, 66, 89, 84>>, "U8", 1, 2, <<255, 0>>)                \* UBYT B

FourccCont == <<67, 79, 78, 84>>   \* CONT

KCont == Nest(FourccCont, <<KDemo, KName>>)
KDeep == Nest(FourccCont, <<Nest(FourccCont, <<KTemp>>), KBlob>>)
KVoid == Nest(FourccCont, <<>>)

\* The numeric types not tried at top level, as the children of one container.
KMix == Nest(FourccCont, <<KTemp, KAccl, KWide, KVect, KFlts, KUsht, KUbyt>>)

WellFormedKlvs == {KDemo, KName, KTags, KTime, KBlob, KCont, KMix, KDeep, KVoid}

MaxRecords == 2

\* The well-formed prefixes: up to MaxRecords complete records, each with its bytes.
WellFormedStreams ==
    {[klvs |-> ks, bytes |-> EncodeAll(ks)] : ks \in SeqsUpTo(WellFormedKlvs, MaxRecords)}

Sentinel == <<0, 0, 0, 0>>

UnknownTypeRecord == RawHeader(<<65, 66, 67, 68>>, 90, 1, 4) \o <<1, 2, 3, 4>>   \* type 'Z'

\* What may follow a sentinel.
Garbage ==
    {<<>>, Encode(KDemo), UnknownTypeRecord, <<1, 2, 3>>, <<255, 255, 255, 255, 255>>}

\* End of input, or a sentinel and anything after it.
CleanTails == {<<>>} \cup {Sentinel \o g : g \in Garbage}

\* A well-formed prefix and a clean tail: the records and the whole input.
CleanInputs ==
    {[klvs |-> w.klvs, bytes |-> w.bytes \o t] : w \in WellFormedStreams, t \in CleanTails}

(***************************************************************************)
(* Malformed and boundary records, as bytes.                               *)
(***************************************************************************)
FourccTags == <<84, 65, 71, 83>>   \* TAGS
FourccTime == <<84, 73, 77, 69>>   \* TIME
FourccZero == <<90, 69, 82, 79>>   \* ZERO
Abcd == <<65, 66, 67, 68>>

KnownTypeBytes == {98, 66, 115, 83, 108, 76, 74, 102, 70, 99, 85, 63, 0}

\* An unknown type code at depth 1, at depth 2, and after a sibling.
UnknownTypeInputs ==
    {UnknownTypeRecord,
     RawHeader(FourccCont, 0, 4, 3) \o UnknownTypeRecord,
     RawHeader(FourccCont, 0, 4, 5) \o RawHeader(FourccCont, 0, 4, 3) \o UnknownTypeRecord,
     RawHeader(FourccCont, 0, 4, 7) \o Encode(KDemo) \o UnknownTypeRecord,
     RawHeader(Abcd, 255, 0, 0)}

\* 'F' payloads: an all-zero element, a payload cut short, sample sizes that are
\* not a multiple of 4.
FourccInputs ==
    {RawHeader(FourccTags, 70, 4, 2) \o Abcd \o Sentinel,
     RawHeader(FourccTags, 70, 4, 2) \o Abcd \o Sentinel \o Encode(KDemo),
     RawHeader(FourccTags, 70, 4, 2) \o Abcd \o <<65, 66>>,
     RawHeader(FourccTags, 70, 4, 2) \o Abcd,
     RawHeader(FourccTags, 70, 6, 1) \o Abcd \o <<69, 70, 0, 0>> \o Encode(KDemo),
     RawHeader(FourccTags, 70, 2, 2) \o Abcd \o Encode(KDemo)}

\* 'U' payloads that are no YYMMDDhhmmss.fff date.
DateTimeInputs ==
    {RawHeader(FourccTime, 85, 16, 1)
        \o <<110, 111, 116, 32, 97, 32, 100, 97, 116, 101, 32, 32, 32, 32, 32, 32>>,
     \* "241301000000.000": month 13
     RawHeader(FourccTime, 85, 16, 1)
        \o <<50, 52, 49, 51, 48, 49, 48, 48, 48, 48, 48, 48, 46, 48, 48, 48>>
        \o Encode(KDemo),
     \* "240229235958": no fraction
     RawHeader(FourccTime, 85, 12, 1)
        \o <<50, 52, 48, 50, 50, 57, 50, 51, 53, 57, 53, 56>>,
     RawHeader(FourccTime, 85, 16, 0)}

\* Numeric records whose sample_size is not a multiple of the element width, laid
\* out with sample_size * repeat payload bytes and their padding.
OddSizeInputs ==
    {RawHeader(<<86, 69, 67, 84>>, 108, 6, 1) \o <<0, 0, 0, 9, 0, 1, 0, 0>> \o Encode(KDemo),
     RawHeader(<<87, 73, 68, 69>>, 74, 4, 2) \o RawHeader(<<68, 69, 77, 79>>, 76, 0, 0),
     RawHeader(<<84, 77, 80, 67>>, 115, 3, 1) \o <<0, 1, 2, 0>> \o Encode(KDemo),
     RawHeader(<<84, 77, 80, 67>>, 115, 3, 2) \o <<0, 1, 2, 0, 3, 4, 0, 0>> \o Encode(KDemo)}

\* Containers whose children do not tile the declared region, or meet a zero
\* FourCC or the end of the source before it ends.
BadNestInputs ==
    {RawHeader(FourccCont, 0, 4, 1) \o Encode(KDemo),
     RawHeader(FourccCont, 0, 4, 1) \o Encode(KDemo) \o Encode(KName),
     RawHeader(FourccCont, 0, 4, 5) \o Encode(KDemo) \o Encode(KName),
     RawHeader(FourccCont, 0, 4, 6) \o Encode(KDemo),
     RawHeader(FourccCont, 0, 4, 6) \o Encode(KDemo) \o Zeros(8),
     RawHeader(FourccCont, 0, 4, 6) \o Encode(KDemo) \o Zeros(8) \o Encode(KName),
     RawHeader(FourccCont, 0, 4, 8) \o RawHeader(FourccCont, 0, 4, 6) \o Encode(KDemo)
        \o Zeros(8) \o Encode(KName)}

\* sample_size * repeat of 65535 and of 65790: past a u16 after rounding, and
\* before it.
OverflowInputs ==
    {RawHeader(FourccCont, 0, 255, 257) \o Encode(KDemo),
     RawHeader(FourccCont, 0, 255, 258) \o Encode(KDemo),
     RawHeader(FourccCont, 0, 255, 258) \o Encode(KDemo) \o Zeros(240)}

\* repeat = 0 for every type code; sample_size = 0 with repeat > 0.
EmptyInputs ==
    {RawHeader(FourccZero, t, 4, 0) \o g : t \in KnownTypeBytes, g \in {<<>>, Encode(KDemo)}}
    \cup {RawHeader(FourccZero, t, 0, 5) \o Encode(KDemo) : t \in {63, 0, 99, 108}}

\* A FourCC that is not UTF-8, before a DEVC.
NonUtf8Record == RawHeader(<<255, 65, 65, 65>>, 76, 4, 1) \o <<0, 0, 0, 7>>

ProperPrefixes(bs) == {SubSeq(bs, 1, n) : n \in 1..(Len(bs) - 1)}

\* A last record cut short at every byte.
TruncatedInputs ==
    ProperPrefixes(Encode(KName)) \cup ProperPrefixes(Encode(KCont))
    \cup ProperPrefixes(Encode(KVect))

\* d containers inside one another, the innermost empty.
RECURSIVE NestChain(_)
NestChain(d) ==
    IF d = 0 THEN <<>>
    ELSE RawHeader(FourccCont, 0, 8, d - 1) \o NestChain(d - 1)

MaxNest == 34

\* Two containers inside one another and one child; the source ends, or holds a
\* zero FourCC, where the inner container's second child should start.
NestedEof == RawHeader(FourccCont, 0, 4, 8) \o RawHeader(FourccCont, 0, 4, 6) \o Encode(KDemo)
NestedZero == NestedEof \o Sentinel

NestedEndInputs ==
    {NestedEof, NestedZero, NestedEof \o <<68, 69>>, NestedEof \o <<68, 69, 77, 79, 76>>,
     NestedZero \o Encode(KName)}

MalformedInputs ==
    UnknownTypeInputs \cup FourccInputs \cup DateTimeInputs \cup OddSizeInputs
    \cup BadNestInputs \cup OverflowInputs \cup EmptyInputs \cup TruncatedInputs
    \cup NestedEndInputs

(***************************************************************************)
(* DEVC inputs for the GPS9 projector.                                     *)
(***************************************************************************)
Gps9Raw(lat, lon, alt, s2, s3, days, secs, dop, fix) ==
    ToBytes(lat, 4) \o ToBytes(lon, 4) \o ToBytes(alt, 4) \o ToBytes(s2, 4)
    \o ToBytes(s3, 4) \o ToBytes(days, 4) \o ToBytes(secs, 4)
    \o ToBytes(dop, 2) \o ToBytes(fix, 2)

KType == Leaf(FourccTYPE, "Ascii", 1, 9, TypeString)
KTypeBad == Leaf(FourccTYPE, "Ascii", 1, 9, <<108, 108, 108, 108, 108, 108, 108, 108, 83>>)
KTypeU8 == Leaf(FourccTYPE, "U8", 1, 9, TypeString)
KScalA == Leaf(FourccSCAL, "S32", 4, 9, <<10, 10, 1, 1, 1, 1, 1, 100, 1>>)
KScalB == Leaf(FourccSCAL, "S32", 36, 1, <<1, 1, 1, 1, 1, 1, 1, 1, 2>>)
KScal8 == Leaf(FourccSCAL, "S32", 4, 8, <<1, 1, 1, 1, 1, 1, 1, 1>>)
KScalU == Leaf(FourccSCAL, "U32", 4, 9, <<10, 10, 1, 1, 1, 1, 1, 100, 1>>)
KScalZ == Leaf(FourccSCAL, "S32", 4, 9, <<1, 1, 1, 1, 1, 1, 1, 1, 0>>)
KScalN == Leaf(FourccSCAL, "S32", 4, 9, <<1, 1, 1, 1, 1, 1, 1, 1, -1>>)
KGpsA == Leaf(FourccGPS9, "Complex", 32, 1,
              Gps9Raw(334, -1182, 54, 35, 37, 8400, 43200, 150, 3))
KGpsB == Leaf(FourccGPS9, "Complex", 32, 2,
              Gps9Raw(-5, 6, 7, 8, 9, 10, 11, 12, 2) \o Gps9Raw(1, 1, 1, 1, 1, 1, 1, 1, 3))
KGps0 == Leaf(FourccGPS9, "Complex", 32, 1, Gps9Raw(1, 2, 3, 4, 5, 6, 7, 8, 0))
KGpsShort == Leaf(FourccGPS9, "Complex", 16, 1, Gps9Raw(1, 2, 3, 4, 0, 0, 0, 0, 0))
KGpsNum == Leaf(FourccGPS9, "S32", 4, 8, <<1, 2, 3, 4, 5, 6, 7, 8>>)
KBadFourcc == Leaf(<<255, 65, 65, 65>>, "U32", 4, 1, <<7>>)

Strm(kids) == Nest(FourccSTRM, kids)

\* The children a DEVC is drawn from: STRMs that project (one of them with every
\* piece repeated), a STRM without a GPS9, a STRM that is no container, a STRM whose
\* first TYPE is wrong, and another record.
StrmA == Strm(<<KType, KScalA, KGpsA>>)
StrmB == Strm(<<KGpsB, KScalB, KName, KType, KTypeBad, KScal8, KGps0>>)
StrmNoGps == Strm(<<KName>>)

DevcChildren ==
    {StrmA, StrmB, StrmNoGps,
     Leaf(FourccSTRM, "Ascii", 1, 4, Abcd),
     Strm(<<KTypeBad, KType, KScalA, KGpsA>>),
     KName}

\* STRMs with one piece missing or of the wrong variant or size.
OddStrms ==
    {Strm(<<>>),
     Strm(<<KScalA, KGpsA>>),
     Strm(<<KType, KGpsA>>),
     Strm(<<KType, KScal8, KScalA, KGpsA>>),
     Strm(<<KType, KScalU, KGpsA>>),
     Strm(<<KTypeU8, KScalA, KGpsA>>),
     Strm(<<KType, KScalA, KGpsNum, KGpsA>>),
     Strm(<<KType, KScalA, KGpsShort>>),
     Strm(<<KType, KScalZ, KGpsA>>),
     Strm(<<KType, KScalZ, KGps0>>),
     Strm(<<KType, KScalN, KGpsA>>),
     Strm(<<KBadFourcc, KType, KScalA, KGpsA>>),
     Strm(<<KType, KScalA, KGps0>>),
     Nest(FourccCont, <<KType, KScalA, KGpsA>>),
     KBadFourcc}

MaxStrm == 2

Devc(kids) == Nest(FourccDEVC, kids)

\* One DEVC with up to MaxStrm children, alone or after another record; a DEVC with
\* an odd STRM, alone and after a STRM without GPS9; a STRM without GPS9, then two
\* that project; a DEVC that is no container; two DEVCs; a DEVC after a FourCC that
\* is not UTF-8.
DevcInputs ==
    {EncodeAll(pre \o <<Devc(kids)>>) :
        pre \in {<<>>, <<KDemo>>}, kids \in SeqsUpTo(DevcChildren, MaxStrm)}
    \cup {Encode(Devc(pre \o <<k>>)) : pre \in {<<>>, <<StrmNoGps>>}, k \in OddStrms}
    \cup {Encode(Devc(<<StrmNoGps, StrmB, StrmA>>)),
          Encode(Leaf(FourccDEVC, "Ascii", 1, 4, Abcd)),
          Encode(Devc(<<StrmB>>)) \o Encode(Devc(<<StrmA>>)),
          NonUtf8Record \o Encode(Devc(<<StrmA>>))}

(***************************************************************************)
(* The samples of a track: SCAL as a camera writes it for the time of day  *)
(* (milliseconds over 1000), with a fix at noon, a fix in the last         *)
(* milliseconds of a day, a fix past the end of a day, and no fix.         *)
(***************************************************************************)
KScalT == Leaf(FourccSCAL, "S32", 4, 9, <<10, 10, 1, 1, 1, 1, 1000, 100, 1>>)
KGpsNoon == Leaf(FourccGPS9, "Complex", 32, 1,
                 Gps9Raw(334, -1182, 54, 35, 37, 8400, 43200000, 150, 3))
KGpsLate == Leaf(FourccGPS9, "Complex", 32, 1,
                 Gps9Raw(335, -1183, 55, 36, 38, 8400, 86399997, 151, 2))
KGpsOver == Leaf(FourccGPS9, "Complex", 32, 1,
                 Gps9Raw(336, -1184, 56, 37, 39, 8401, 90000000, 152, 3))
KGpsDark == Leaf(FourccGPS9, "Complex", 32, 1,
                 Gps9Raw(1, 2, 3, 4, 5, 6, 7000, 8, 0))

TrackStreams ==
    {Encode(Devc(<<Strm(<<KType, KScalT, g>>)>>)) : g \in {KGpsNoon, KGpsLate, KGpsDark}}
    \cup {Encode(Devc(<<StrmB>>))}

\* The most samples a track holds.
MaxSamples == 3

(***************************************************************************)
(* The specification.                                                      *)
(***************************************************************************)
Streams ==
    {c.bytes : c \in CleanInputs}
    \cup {p \o m : p \in {<<>>, Encode(KDemo)}, m \in MalformedInputs}
    \cup {NestChain(d) : d \in 1..MaxNest}
    \cup DevcInputs
    \cup TrackStreams
    \cup {Encode(Devc(<<Strm(<<KType, KScalT, KGpsOver>>)>>))}

(***************************************************************************)
(* GpmfTrack::from_mp4_reader's loop (gpmf_util lib.rs 28-38) over the     *)
(* samples of the track, and GpmfTrack::write_gpx.  from_mp4_reader        *)
(* returns the Err of from_bytes, and a panic ends the program: only an Ok *)
(* sample goes on.                                                         *)
(***************************************************************************)
\* The sample is pushed and the next sample's bytes are read and parsed.
ReadSample ==
    /\ pc = "projected" /\ sample.tag = "Ok"
    /\ Len(gpmf_sample_infos) + 1 < MaxSamples
    /\ gpmf_sample_infos' = Append(gpmf_sample_infos, sample.gps9)
    /\ src' \in TrackStreams
    /\ pos' = 0
    /\ stack' = <<>>
    /\ klvs' = <<>>
    /\ hdr' = NoHeader
    /\ pc' = "header"
    /\ ret' = NoRet
    /\ sample' = NoSample
    /\ UNCHANGED <<iter, waypoints, gpx>>

\* The last sample is pushed, Ok(Self { gpmf_sample_infos }); write_gpx starts.
TrackReady ==
    /\ pc = "projected" /\ sample.tag = "Ok"
    /\ gpmf_sample_infos' = Append(gpmf_sample_infos, sample.gps9)
    /\ pc' = "gpx"
    /\ UNCHANGED <<src, pos, stack, klvs, hdr, ret, sample, iter, waypoints, gpx>>

\* lib.rs 72-74: if gps9.fix == 0 { continue; }
WriteGpxSkip ==
    /\ pc = "gpx" /\ iter < Len(gpmf_sample_infos)
    /\ gpmf_sample_infos[iter + 1].fix = <<0, 0>>
    /\ iter' = iter + 1
    /\ UNCHANGED <<src, pos, stack, klvs, hdr, pc, ret, sample, gpmf_sample_infos,
                   waypoints, gpx>>

\* lib.rs 76-92: the waypoint of a sample with a fix is pushed.
WriteGpxPush ==
    /\ pc = "gpx" /\ iter < Len(gpmf_sample_infos)
    /\ LET gps9 == gpmf_sample_infos[iter + 1]
           time == to_datetime(gps9)
       IN  /\ gps9.fix # <<0, 0>>
           /\ time.tag = "Some"
           /\ waypoints' = Append(waypoints, new_waypoint(gps9, time))
    /\ iter' = iter + 1
    /\ UNCHANGED <<src, pos, stack, klvs, hdr, pc, ret, sample, gpmf_sample_infos, gpx>>

\* lib.rs 78: gps9.to_datetime().unwrap() on None, or the panic of to_datetime:
\* write_gpx never reaches gpx::write.
WriteGpxPanic ==
    /\ pc = "gpx" /\ iter < Len(gpmf_sample_infos)
    /\ LET gps9 == gpmf_sample_infos[iter + 1] IN
         /\ gps9.fix # <<0, 0>>
         /\ to_datetime(gps9).tag # "Some"
    /\ gpx' = [tag |-> "Panic", points |-> <<>>]
    /\ pc' = "written"
    /\ UNCHANGED <<src, pos, stack, klvs, hdr, ret, sample, gpmf_sample_infos, iter,
                   waypoints>>

\* lib.rs 95-110: the loop is over; the waypoints are the one segment of the one
\* track given to gpx::write.
WriteGpxDone ==
    /\ pc = "gpx" /\ iter = Len(gpmf_sample_infos)
    /\ gpx' = [tag |-> "Ok", points |-> waypoints]
    /\ pc' = "written"
    /\ UNCHANGED <<src, pos, stack, klvs, hdr, ret, sample, gpmf_sample_infos, iter,
                   waypoints>>

Init ==
    /\ src \in Streams
    /\ pos = 0
    /\ stack = <<>>
    /\ klvs = <<>>
    /\ hdr = NoHeader
    /\ pc = "header"
    /\ ret = NoRet
    /\ sample = NoSample
    /\ gpmf_sample_infos = <<>>
    /\ iter = 0
    /\ waypoints = <<>>
    /\ gpx = NoGpx

Next ==
    \/ TopHeaderBreak
    \/ TopHeaderErr
    \/ TopHeaderOk
    \/ ChildHeaderOk
    \/ ChildHeaderErr
    \/ LeafValueOk
    \/ LeafValueErr
    \/ LeafValuePanic
    \/ EnterNested
    \/ NestedOverflowPanic
    \/ ExitNested
    \/ FromBytes
    \/ ReadSample
    \/ TrackReady
    \/ WriteGpxSkip
    \/ WriteGpxPush
    \/ WriteGpxPanic
    \/ WriteGpxDone

Spec == Init /\ [][Next]_vars

(***************************************************************************)
(* Properties.                                                             *)
(***************************************************************************)
Returned == pc \in {"done", "projected"}

OkWith(ks) == [tag |-> "Ok", err |-> "", byte |-> 0, klvs |-> ks]

ErrWith(e, b) == [tag |-> "Err", err |-> e, byte |-> b, klvs |-> <<>>]

\* The parser is about to read a header: at top level, or in a child loop before
\* the container's end.
ReadsHeader ==
    pc = "header" /\ (InNested => pos < stack[Len(stack)].end_position)

\* The `klvs` of the innermost active loop.
CurrentKlvs == IF InNested THEN stack[Len(stack)].klvs ELSE klvs

\* C1: for a well-formed prefix P of records, the parse of P, of P followed by four
\* zero bytes, and of P followed by four zero bytes and any trailing bytes all
\* return Ok with the records of P, in order.
C1_SentinelEndsStream ==
    Returned => \A c \in CleanInputs : src = c.bytes => ret = OkWith(c.klvs)

\* A parse of two records that stopped at a sentinel with bytes left unread.
C1_Witness ==
    /\ pc = "done" /\ ret.tag = "Ok" /\ Len(ret.klvs) = 2
    /\ pos >= 4 /\ SubSeq(src, pos - 3, pos) = Sentinel
    /\ Len(src) > pos + 4

\* C2: Klv::from_reader returns an Ok record list only when the stream ends cleanly:
\* fewer than 4 bytes are left at a top-level header position, or the next 4 bytes
\* are zero.  A stream that ends inside header bytes 5-8, a payload or its padding
\* gives an error.
C2_OkOnlyAtCleanEnd ==
    [][(pc = "header" /\ ret'.tag = "Ok") =>
         \/ Len(src) - pos < 4
         \/ SubSeq(src, pos + 1, pos + 4) = Sentinel]_vars

\* 8 + round_up_4(sample_size * repeat)
DeclaredSize(h) == 8 + next_multiple_of_4(h.tsr.sample_size * h.tsr.repeat)

RECURSIVE SumDeclared(_)
SumDeclared(ks) ==
    IF ks = <<>> THEN 0 ELSE DeclaredSize(Head(ks).header) + SumDeclared(Tail(ks))

\* Where the innermost active loop started reading records.
LoopStart ==
    IF InNested
    THEN stack[Len(stack)].end_position
         - next_multiple_of_4(stack[Len(stack)].header.tsr.sample_size
                              * stack[Len(stack)].header.tsr.repeat)
    ELSE 0

\* C3: every parsed record advances the reader by 8 + round_up_4(sample_size *
\* repeat): between two records of a loop, the position is the loop's start plus
\* the declared sizes of the records parsed so far.
C3_AdvanceIsDeclaredSize ==
    pc = "header" => pos = LoopStart + SumDeclared(CurrentKlvs)

\* C4: when a child loop ends, the position is the container's declared end; a
\* child that runs past it fails the parse.
C4_ChildrenTile ==
    (pc = "header" /\ InNested /\ pos >= stack[Len(stack)].end_position)
       => pos = stack[Len(stack)].end_position

\* A header is read whose FourCC is not zero and whose type byte is unknown.
UnknownTypeAhead ==
    /\ ReadsHeader
    /\ pos + 5 <= Len(src)
    /\ SubSeq(src, pos + 1, pos + 4) # Sentinel
    /\ src[pos + 5] \notin KnownTypeBytes

\* C5: a header with an unknown type byte, at any depth, ends the parse with
\* UnknownValueType carrying that byte, and no record list.
C5_UnknownTypeReturned ==
    [][UnknownTypeAhead =>
         pc' = "done" /\ ret' = ErrWith("UnknownValueType", src[pos + 5])]_vars

\* The parse ended on type byte 'Z' read inside a container.
C5_Witness ==
    /\ pc = "done" /\ ret = ErrWith("UnknownValueType", 90)
    /\ Len(src) >= 8 /\ src[5] = 0

\* C6: an 'F' record yields axis_count * repeat elements, each the next 4 bytes
\* whatever they are, when the source holds them, and an error value when it is
\* short; it never aborts.
C6_FourccVectorNoZeroCheck ==
    [][(pc = "value" /\ hdr.tsr.typ = "Fourcc") =>
         LET n == axis_count(hdr.tsr) * hdr.tsr.repeat IN
         IF pos + 4 * n <= Len(src)
         THEN /\ pc' = "header"
              /\ CurrentKlvs'[Len(CurrentKlvs')].value.fourccs
                   = [i \in 1..n |-> SubSeq(src, pos + 4 * i - 3, pos + 4 * i)]
         ELSE ret'.tag = "Err"]_vars

\* YYMMDDhhmmss.fff: twelve digits, a dot, three digits.
MatchesPattern(bs) ==
    /\ Len(bs) = 16
    /\ \A i \in 1..12 : IsDigit(bs[i])
    /\ bs[13] = 46
    /\ \A i \in 14..16 : IsDigit(bs[i])

\* C7: a 'U' record whose payload is present but does not match the pattern ends
\* the parse with an error value.
C7_InvalidDateReturned ==
    [][(/\ pc = "value" /\ hdr.tsr.typ = "DateTime"
        /\ pos + next_multiple_of_4(hdr.tsr.sample_size * hdr.tsr.repeat) <= Len(src)
        /\ ~MatchesPattern(SubSeq(src, pos + 1,
                                  pos + hdr.tsr.sample_size * hdr.tsr.repeat)))
       => (pc' = "done" /\ ret'.tag = "Err")]_vars

\* C8: the recursion depth of Value::from_reader never exceeds the cap of 32.
C8_DepthCapped == Len(stack) <= 32

(***************************************************************************)
(* The projector's contract, stated over the record list the parser        *)
(* returned.                                                               *)
(***************************************************************************)
HasFourcc(k, name) == k.header.fourcc = name

\* The first index of ks whose record has FourCC name; 0 when there is none.
FirstWith(ks, name) ==
    IF \E i \in 1..Len(ks) : HasFourcc(ks[i], name)
    THEN CHOOSE i \in 1..Len(ks) :
           HasFourcc(ks[i], name) /\ \A j \in 1..(i - 1) : ~HasFourcc(ks[j], name)
    ELSE 0

IsGpsStrm(k) ==
    /\ HasFourcc(k, FourccSTRM)
    /\ k.value.typ = "Nested"
    /\ \E j \in 1..Len(k.value.kids) : HasFourcc(k.value.kids[j], FourccGPS9)

\* The first GPS9-bearing STRM among ks; 0 when there is none.
FirstGpsStrm(ks) ==
    IF \E i \in 1..Len(ks) : IsGpsStrm(ks[i])
    THEN CHOOSE i \in 1..Len(ks) :
           IsGpsStrm(ks[i]) /\ \A j \in 1..(i - 1) : ~IsGpsStrm(ks[j])
    ELSE 0

\* The record from_bytes hands to GpmfSample::new.
DevcKlv == ret.klvs[FirstWith(ret.klvs, FourccDEVC)]

SelectedStrm == DevcKlv.value.kids[FirstGpsStrm(DevcKlv.value.kids)].value.kids

\* C9: the fix is projected from the first STRM child of DEVC that holds a GPS9,
\* with that STRM's first TYPE, first SCAL and first GPS9.
C9_FirstMatchSelection ==
    (pc = "projected" /\ sample.tag = "Ok") =>
       /\ FirstGpsStrm(DevcKlv.value.kids) > 0
       /\ LET s == SelectedStrm IN
          /\ s[FirstWith(s, FourccTYPE)].value.nums = TypeString
          /\ sample.gps9 = read_gps9(s[FirstWith(s, FourccGPS9)].value.nums,
                                     s[FirstWith(s, FourccSCAL)].value.nums)
          /\ sample.klvs = DevcKlv.value.kids

\* A fix projected from the second of three children: the first is a STRM without
\* GPS9, the third a STRM that would project another fix; the selected STRM holds
\* two TYPE, two SCAL and two GPS9 records.
C9_Witness ==
    /\ pc = "projected" /\ sample.tag = "Ok"
    /\ Len(DevcKlv.value.kids) = 3
    /\ FirstGpsStrm(DevcKlv.value.kids) = 2
    /\ HasFourcc(DevcKlv.value.kids[1], FourccSTRM)
    /\ IsGpsStrm(DevcKlv.value.kids[3])
    /\ Cardinality({j \in 1..Len(SelectedStrm) : HasFourcc(SelectedStrm[j], FourccGPS9)}) = 2
    /\ Cardinality({j \in 1..Len(SelectedStrm) : HasFourcc(SelectedStrm[j], FourccSCAL)}) = 2
    /\ Cardinality({j \in 1..Len(SelectedStrm) : HasFourcc(SelectedStrm[j], FourccTYPE)}) = 2

\* DEVC is Nested, a GPS9-bearing STRM exists, and in it the first TYPE is Ascii
\* "lllllllSS", the first SCAL is S32 with 9 elements, the first GPS9 is Complex.
StructureMatches ==
    /\ ret.tag = "Ok"
    /\ FirstWith(ret.klvs, FourccDEVC) > 0
    /\ DevcKlv.value.typ = "Nested"
    /\ FirstGpsStrm(DevcKlv.value.kids) > 0
    /\ LET s == SelectedStrm
           t == FirstWith(s, FourccTYPE)
           c == FirstWith(s, FourccSCAL)
           g == FirstWith(s, FourccGPS9)
       IN  /\ t > 0 /\ s[t].value.typ = "Ascii" /\ s[t].value.nums = TypeString
           /\ c > 0 /\ s[c].value.typ = "S32" /\ Len(s[c].value.nums) = 9
           /\ s[g].value.typ = "Complex"

\* C10: a GpmfSample is produced only from a matching structure; in every other
\* case the projection fails and yields no sample.
C10_SampleOnlyFromMatchingStructure ==
    pc = "projected" =>
       /\ sample.tag = "Ok" => StructureMatches
       /\ ~StructureMatches => (sample.tag \in {"Panic", "Err"} /\ sample.gps9 = <<>>)

\* The projection failed on a SCAL of 8 elements.
C10_Witness ==
    /\ pc = "projected" /\ sample.tag = "Panic" /\ sample.err = "SCAL length"
    /\ ~StructureMatches

\* The samples of the track that have a fix, in order.
WithFix == SelectSeq(gpmf_sample_infos, LAMBDA g : g.fix # <<0, 0>>)

\* The raw fix field of the first GPS9 sample, over the ninth divisor, is 0 as a u32.
RawFixScalesToZero ==
    LET s == SelectedStrm
        raw == s[FirstWith(s, FourccGPS9)].value.nums
        scal == s[FirstWith(s, FourccSCAL)].value.nums
    IN  /\ Len(raw) >= 32
        /\ scaled_fix(UnsignedBE(SubSeq(raw, 31, 32)), scal[9]) = <<0, 0>>

\* C11: the projector returns a sample with fix = 0 whenever the raw fix scales to
\* 0, and the sample is kept in the track; write_gpx alone filters: what it writes
\* is one waypoint for each sample with fix # 0, none for a sample with fix = 0,
\* in the order of the samples.
C11_FilteringOnlyDownstream ==
    /\ (pc = "projected" /\ StructureMatches /\ RawFixScalesToZero)
          => (sample.tag = "Ok" /\ sample.gps9.fix = <<0, 0>>)
    /\ pc = "gpx" =>
          gpmf_sample_infos[Len(gpmf_sample_infos)] = sample.gps9
    /\ pc = "written" =>
          /\ gpx.tag = "Ok"
          /\ Len(gpx.points) = Len(WithFix)
          /\ \A i \in 1..Len(WithFix) :
                /\ gpx.points[i].point = <<WithFix[i].longitude, WithFix[i].latitude>>
                /\ gpx.points[i].elevation = WithFix[i].altitude
                /\ gpx.points[i].speed = WithFix[i].speed_2d
                /\ gpx.points[i].pdop = WithFix[i].dop
                /\ gpx.points[i].fix = gpx_fix(WithFix[i].fix)

\* The record of header h with an empty payload: an empty vector, string or blob.
EmptyLeaf(h) == [header |-> h, value |-> [NoValue EXCEPT !.typ = h.tsr.typ]]

\* C12: for every type code of the closed set, the value of a header with repeat = 0
\* parses to an empty payload, reads no payload byte and no padding byte, and
\* leaves the reader where the header ended, 8 bytes after its start: a leaf is
\* pushed empty, a container starts a child loop that ends where it starts.
C12_RepeatZeroIsEmpty ==
    [][(pc = "value" /\ hdr.tsr.repeat = 0) =>
          /\ pc' = "header"
          /\ pos' = pos
          /\ IF hdr.tsr.typ = "Nested"
             THEN stack' = Append(stack, [header |-> hdr, end_position |-> pos,
                                          klvs |-> <<>>])
             ELSE CurrentKlvs' = Append(CurrentKlvs, EmptyLeaf(hdr))]_vars

\* C13: for every nested header the end boundary of the child loop is the reader
\* position plus sample_size * repeat rounded up to a multiple of 4, both computed
\* as mathematical integers, with no wraparound or overflow at 16 bits.
C13_EndBoundaryIsExact ==
    [][(pc = "value" /\ hdr.tsr.typ = "Nested") =>
          /\ pc' = "header"
          /\ Len(stack') = Len(stack) + 1
          /\ stack'[Len(stack')].end_position =
                pos + next_multiple_of_4(hdr.tsr.sample_size * hdr.tsr.repeat)]_vars

\* The four bytes at the reader position are zero.
ZeroFourccAhead ==
    pos + 4 <= Len(src) /\ SubSeq(src, pos + 1, pos + 4) = Sentinel

\* The source ends at the reader position or inside the 8 bytes of the header
\* that starts there, before a zero FourCC or an unknown type byte is read.
EndOfStreamAhead ==
    /\ Len(src) - pos < 8
    /\ ~ZeroFourccAhead
    /\ pos + 5 <= Len(src) => src[pos + 5] \in KnownTypeBytes

\* C14: a zero FourCC or an end of stream met where a child header is read, inside
\* a container and before its declared end, does not end the child loop cleanly:
\* Klv::from_reader returns that error, through every enclosing container, and
\* none of the records parsed so far.
C14_NoCleanStopInsideContainer ==
    [][(pc = "header" /\ InNested /\ pos < stack[Len(stack)].end_position) =>
          /\ ZeroFourccAhead => (pc' = "done" /\ ret' = ErrWith("ZeroFourcc", 0))
          /\ EndOfStreamAhead => (pc' = "done" /\ ret' = ErrWith("Io", 0))]_vars

\* A record, then two containers inside one another whose inner child loop met the
\* end of the source after one child: the parse returned the Io error.
C14_Witness ==
    /\ pc = "done"
    /\ src = Encode(KDemo) \o NestedEof
    /\ pos = Len(src)
    /\ ret = ErrWith("Io", 0)

\* Klv::from_reader is running.
Parsing == pc \in {"header", "value"}

\* C15: Klv::from_reader terminates on every finite source: an iteration of the
\* top-level loop or of a child loop starts by reading a header, which either ends
\* the parse or moves the reader 8 bytes on; the reader never moves back and never
\* past the end of the source; and the parse ends in Ok or Err.
C15_TerminatesWithResult ==
    [][Parsing =>
          /\ pos' >= pos /\ pos' <= Len(src)
          /\ ReadsHeader => (pc' = "done" \/ pos' = pos + 8)
          /\ pc' = "done" => ret'.tag \in {"Ok", "Err"}]_vars

====
